---- MODULE Spec2Model ----
(***************************************************************************)
(* Model of the payment side of the fundraising backend:                   *)
(*   - the fee calculator (calculateStripeFees, calculatePlatformFees,     *)
(*     calculateNetAmount, imported from config/config) and                *)
(*     StripeService.calculateFees, which assembles the breakdown;         *)
(*   - the payment gateway adapter StripeService (createPaymentIntent,     *)
(*     confirmPayment, refundPayment, isEnabled) around the provider SDK.  *)
(*                                                                         *)
(* The three fee functions are imported by src/services/webhook.service.ts *)
(* but their definitions are not among the source files; they are modelled *)
(* from spec.md sections 3, 4.1 and 8.  spec.md fixes the schedule (2.9%   *)
(* plus 30, and 5%) and that the fees are integers, but not how a          *)
(* fractional fee becomes an integer: the rounding is a choice made in     *)
(* Init among floor, round-half-up and ceiling, and stays fixed.           *)
(*                                                                         *)
(* It also models the webhook processor WebhookService: each incoming      *)
(* request runs handleStripeWebhook and processWebhookEvent in the steps   *)
(* their awaits cut them into, over the shared events map.                 *)
(*                                                                         *)
(* Last comes the HTTP side: the two error handlers, and one request at a  *)
(* time going through the stack of a route (authenticateToken,             *)
(* requireRole, validateBody/validateQuery/validateParams, the handler).   *)
(***************************************************************************)
EXTENDS Integers, Sequences, FiniteSets

\* ------------------------------------------------------------------ bounds
\* Largest gross amount (minor units) the fee calculator is called with,
\* besides the spec's worked example.
MaxAmount == 700

\* Number of webhook requests the server receives.
MaxRequests == 2

\* ------------------------------------------------------------ JS numbers
\* A JavaScript number that is a ratio num/den (den > 0); integers have
\* den = 1.  Enough to tell integer from non-integer amounts.
Num(n, d) == [num |-> n, den |-> d]

\* Number.isInteger
IsInteger(a) == a.num % a.den = 0

\* A variant of the amount check that forgets the integer test.
IsValidAmountPositiveOnly(a) == a.num > 0

\* "positive integer, minor units" (PaymentIntentRequest.amount)
IsValidAmount(a) == IsInteger(a) /\ a.num > 0

\* The integer a valid amount stands for.
IntOf(a) == a.num \div a.den

\* Number.prototype.toString for a non-negative integer.
Digit(n) == CASE n = 0 -> "0" [] n = 1 -> "1" [] n = 2 -> "2" [] n = 3 -> "3"
              [] n = 4 -> "4" [] n = 5 -> "5" [] n = 6 -> "6" [] n = 7 -> "7"
              [] n = 8 -> "8" [] n = 9 -> "9"

RECURSIVE toString(_)
toString(n) == IF n < 10 THEN Digit(n) ELSE toString(n \div 10) \o Digit(n % 10)

\* A value that may be absent (undefined): the empty set, or a singleton.
None == {}
Some(v) == {v}

\* --------------------------------------------------------------- variables
VARIABLES
    rounding,          \* how the calculator makes a fractional fee an integer
    feeCall,           \* the last call of StripeService.calculateFees (None before it)
    secretKeyEnv,      \* process.env.STRIPE_SECRET_KEY (None when unset)
    stripe,            \* the module-level client: "null" or "client"
    pc,                \* "idle", or the provider call the operation awaits
    call,              \* the operation in progress or last completed
    providerRequests,  \* requests sent to the provider by that operation
    providerReply,     \* the provider's answer to it (None before it answers)
    outcome,           \* what the operation gave its caller (None while pending)
    isEnabledResult,   \* what the last isEnabled() returned (None before it)
    environment,       \* config.app.environment
    requests,          \* per webhook request: position, inputs, event, response
    events,            \* WebhookService.events, entries in insertion order
    handlerCalls,      \* the handler invocations so far, in order
    uuidCount,         \* how many ids uuidv4() has generated
    queryResult,       \* what the last getEvent/getAllEvents/getEventsByType returned
    errorResponse,     \* the last run of an error handler: its input and response
    req,               \* the HTTP request going through a route's middleware
    res,               \* the responses sent for it, in order
    layer,             \* the position of that request in the route's stack
    nextCalls          \* the middleware that called next() for it, in order

webhookVars == <<environment, requests, events, handlerCalls, uuidCount,
                 queryResult>>

httpVars == <<errorResponse, req, res, layer, nextCalls>>

vars == <<rounding, feeCall, secretKeyEnv, stripe, pc, call,
          providerRequests, providerReply, outcome, isEnabledResult,
          webhookVars, httpVars>>

adapterVars == <<secretKeyEnv, stripe, pc, call, providerRequests,
                 providerReply, outcome, isEnabledResult>>

\* ---------------------------------------------------------- fee calculator
RoundingModes == {"floor", "round", "ceil"}

\* The fee schedule of spec.md section 8: 2.9% + 30 and 5%.
StripePermille == 29
StripeFlatFee == 30
PlatformPermille == 50

\* n * permille / 1000 made an integer, for n >= 0.
PermilleOf(n, permille) ==
    LET x == n * permille
    IN  CASE rounding = "floor" -> x \div 1000
          [] rounding = "round" -> (x + 500) \div 1000
          [] rounding = "ceil"  -> (x + 999) \div 1000

\* What a fee function does: returns an integer or throws.
Return(v) == [ok |-> TRUE, val |-> v, err |-> ""]
Throw(e) == [ok |-> FALSE, val |-> 0, err |-> e]

calculateStripeFees(a) ==
    IF ~IsValidAmount(a) THEN Throw("InvalidAmount")
    ELSE Return(PermilleOf(IntOf(a), StripePermille) + StripeFlatFee)

calculatePlatformFees(a) ==
    IF ~IsValidAmount(a) THEN Throw("InvalidAmount")
    ELSE Return(PermilleOf(IntOf(a), PlatformPermille))

\* gross - processor fee - platform fee (an integer already, so the floor
\* of spec.md 4.1 changes nothing).
calculateNetAmount(a) ==
    IF ~IsValidAmount(a) THEN Throw("InvalidAmount")
    ELSE Return(IntOf(a) - calculateStripeFees(a).val - calculatePlatformFees(a).val)

NoBreakdown == [stripeFees |-> 0, platformFees |-> 0, netAmount |-> 0, totalFees |-> 0]

\* A variant of calculateFees that derives the net amount from the
\* processor fee alone.
calculateFeesNetOfStripeOnly(a) ==
    LET sf == calculateStripeFees(a)
        pf == calculatePlatformFees(a)
    IN  IF ~sf.ok THEN Throw(sf.err) ELSE
        IF ~pf.ok THEN Throw(pf.err) ELSE
        Return([stripeFees |-> sf.val, platformFees |-> pf.val,
                netAmount |-> IntOf(a) - sf.val,
                totalFees |-> sf.val + pf.val])

\* A variant of calculateFees that takes the processor fee off the net
\* amount a second time.
calculateFeesStripeFeeTwice(a) ==
    LET sf == calculateStripeFees(a)
        pf == calculatePlatformFees(a)
        na == calculateNetAmount(a)
    IN  IF ~sf.ok THEN Throw(sf.err) ELSE
        IF ~pf.ok THEN Throw(pf.err) ELSE
        IF ~na.ok THEN Throw(na.err) ELSE
        Return([stripeFees |-> sf.val, platformFees |-> pf.val,
                netAmount |-> na.val - sf.val, totalFees |-> sf.val + pf.val])

\* A variant of calculateFees that answers an exception of a fee function
\* with an all-zero breakdown.
calculateFeesSwallowing(a) ==
    LET sf == calculateStripeFees(a)
        pf == calculatePlatformFees(a)
        na == calculateNetAmount(a)
    IN  IF ~sf.ok \/ ~pf.ok \/ ~na.ok THEN Return(NoBreakdown) ELSE
        Return([stripeFees |-> sf.val, platformFees |-> pf.val,
                netAmount |-> na.val, totalFees |-> sf.val + pf.val])

\* StripeService.calculateFees: the object literal evaluates the four
\* properties in order; the first call that throws ends it.
calculateFees(a) ==
    LET sf == calculateStripeFees(a)
        pf == calculatePlatformFees(a)
        na == calculateNetAmount(a)
    IN  IF ~sf.ok THEN Throw(sf.err) ELSE
        IF ~pf.ok THEN Throw(pf.err) ELSE
        IF ~na.ok THEN Throw(na.err) ELSE
        Return([stripeFees |-> sf.val, platformFees |-> pf.val,
                netAmount |-> na.val, totalFees |-> sf.val + pf.val])

\* Arguments the calculator is called with: every gross amount up to
\* MaxAmount, the worked example of spec.md section 8 (5000), and amounts
\* that are not positive integers.
FeeInputs ==
    {Num(n, 1) : n \in (-1 .. MaxAmount) \cup {5000}}
        \cup {Num(1, 2), Num(21, 2)}

\* A caller invokes StripeService.calculateFees(a).
CalculateFees(a) ==
    /\ feeCall' = Some([arg |-> a, res |-> calculateFees(a)])
    /\ UNCHANGED <<rounding, adapterVars, webhookVars,
                   httpVars>>

\* ------------------------------------------------- configuration (config)
DevelopmentKey == "sk_test_development_key"

\* config.stripe.secretKey: process.env.STRIPE_SECRET_KEY || the placeholder
\* (an empty string is falsy).
secretKey(env) == IF env = None \/ env = Some("") THEN DevelopmentKey
                  ELSE CHOOSE k \in env : TRUE

\* config.stripe.enabled: !!process.env.STRIPE_SECRET_KEY
enabled(env) == ~(env = None \/ env = Some(""))

\* A variant of the module initialisation that builds the client whenever
\* config.stripe.enabled holds, placeholder key or not.
stripeInitIgnoringPlaceholder(env) ==
    IF enabled(env) THEN "client" ELSE "null"

\* Module initialisation of the client (let stripe = null; if (...) new Stripe).
stripeInit(env) ==
    IF enabled(env) /\ secretKey(env) # DevelopmentKey THEN "client" ELSE "null"

\* --------------------------------------------------------- payment results
PaymentResult(s, id, secret, e) ==
    [success |-> s, paymentIntentId |-> id, clientSecret |-> secret, error |-> e]

NotConfigured ==
    PaymentResult(FALSE, None, None, Some("Stripe is not configured or enabled"))

\* How an operation ends for its caller.
Returned(r) == [kind |-> "return", result |-> r]

\* error.message || fallback: an undefined or empty message is falsy.
OrElse(m, fallback) == IF m = None \/ m = Some("") THEN fallback
                       ELSE CHOOSE x \in m : TRUE

\* A variant of the catch block of createPaymentIntent without the fallback
\* text.
createPaymentIntentCatchNoFallback(m) ==
    Returned(PaymentResult(FALSE, None, None, Some(OrElse(m, ""))))

\* The catch block of createPaymentIntent.
createPaymentIntentCatch(m) ==
    Returned(PaymentResult(FALSE, None, None,
                           Some(OrElse(m, "Payment processing failed"))))

\* The catch block of confirmPayment.
confirmPaymentCatch(m) ==
    Returned(PaymentResult(FALSE, None, None,
                           Some(OrElse(m, "Payment confirmation failed"))))

\* The catch block of refundPayment.
refundPaymentCatch(m) ==
    Returned(PaymentResult(FALSE, None, None, Some(OrElse(m, "Refund failed"))))

\* ------------------------------------------------------------- the provider
IntentIds == {"pi_1", "pi_2"}
Currencies == {"usd", "eur"}
Statuses == {"succeeded", "processing", "requires_payment_method", "canceled"}
ClientSecrets == {None, Some("pi_secret")}
ErrorMessages == {None, Some(""), Some("Your card was declined.")}

\* What the awaited provider call does: resolves with an object or rejects
\* with an error (only the fields the adapter reads).
Resolves(id, secret, status) ==
    [ok |-> TRUE, id |-> id, client_secret |-> secret, status |-> status,
     message |-> None]
Rejects(m) ==
    [ok |-> FALSE, id |-> "", client_secret |-> None, status |-> "", message |-> m]

\* ------------------------------------------------------ adapter operations
\* Amounts createPaymentIntent and refundPayment are called with.
AdapterAmounts ==
    {Num(-500, 1), Num(0, 1), Num(1, 2), Num(1, 1), Num(190, 1),
     Num(5000, 1)}

\* A variant of the total that passes only the processor fee on to the payer.
totalAmountWithoutPlatformFees(amount, fees, platformFees) == amount + fees

\* A variant of the total that charges the gross amount alone.
totalAmountGrossOnly(amount, fees, platformFees) == amount

\* const totalAmount = data.amount + fees + platformFees
totalAmount(amount, fees, platformFees) == amount + fees + platformFees

NoLocals == [fees |-> 0, platformFees |-> 0, totalAmount |-> 0]

Begin(c) ==
    /\ pc = "idle"
    /\ call' = c
    /\ providerReply' = None
    /\ UNCHANGED <<rounding, feeCall, secretKeyEnv, stripe, isEnabledResult,
                   webhookVars,
                   httpVars>>

\* createPaymentIntent(data) up to its await (or to its return, when it
\* returns before calling the provider).
CreatePaymentIntent(data) ==
    LET fees == calculateStripeFees(data.amount)
        platformFees == calculatePlatformFees(data.amount)
        total == totalAmount(IntOf(data.amount), fees.val, platformFees.val)
    IN  IF stripe = "null" THEN
            /\ Begin([op |-> "createPaymentIntent", data |-> data, locals |-> NoLocals])
            /\ outcome' = Some(Returned(NotConfigured))
            /\ providerRequests' = <<>>
            /\ pc' = "idle"
        ELSE IF ~fees.ok \/ ~platformFees.ok THEN
            /\ Begin([op |-> "createPaymentIntent", data |-> data, locals |-> NoLocals])
            /\ outcome' = Some(createPaymentIntentCatch(
                                Some(IF ~fees.ok THEN fees.err ELSE platformFees.err)))
            /\ providerRequests' = <<>>
            /\ pc' = "idle"
        ELSE
            /\ Begin([op |-> "createPaymentIntent", data |-> data,
                      locals |-> [fees |-> fees.val, platformFees |-> platformFees.val,
                                  totalAmount |-> total]])
            /\ providerRequests' =
                 <<[api |-> "paymentIntents.create",
                    amount |-> Some(Num(total, 1)),
                    currency |-> data.currency,
                    payment_intent |-> "",
                    metadata |-> [originalAmount |-> toString(IntOf(data.amount)),
                                  stripeFees |-> toString(fees.val),
                                  platformFees |-> toString(platformFees.val)]]>>
            /\ outcome' = None
            /\ pc' = "paymentIntents.create"

Settle(reply, o) ==
    /\ providerReply' = Some(reply)
    /\ outcome' = Some(o)
    /\ pc' = "idle"
    /\ UNCHANGED <<rounding, feeCall, secretKeyEnv, stripe, call,
                   providerRequests, isEnabledResult, webhookVars,
                   httpVars>>

\* The provider creates the intent; createPaymentIntent returns it.
CreateResolves(id, secret) ==
    /\ pc = "paymentIntents.create"
    /\ Settle(Resolves(id, secret, "requires_payment_method"),
              Returned(PaymentResult(TRUE, Some(id),
                                     IF secret = Some("") THEN None ELSE secret,
                                     None)))

\* The provider call throws; the catch block answers.
CreateRejects(m) ==
    /\ pc = "paymentIntents.create"
    /\ Settle(Rejects(m), createPaymentIntentCatch(m))

\* confirmPayment(paymentIntentId) up to its await.
ConfirmPayment(id) ==
    /\ Begin([op |-> "confirmPayment", paymentIntentId |-> id])
    /\ IF stripe = "null" THEN
            /\ outcome' = Some(Returned(NotConfigured))
            /\ providerRequests' = <<>>
            /\ pc' = "idle"
       ELSE
            /\ providerRequests' =
                 <<[api |-> "paymentIntents.retrieve", amount |-> None,
                    currency |-> "", payment_intent |-> id,
                    metadata |-> [originalAmount |-> "", stripeFees |-> "",
                                  platformFees |-> ""]]>>
            /\ outcome' = None
            /\ pc' = "paymentIntents.retrieve"

\* The status message of confirmPayment (`Payment status: ${status}`).
statusMessage(status) == "Payment status: " \o status

\* A variant of confirmPayment's decision that also takes a payment still
\* being processed for a success.
confirmPaymentResultLenient(intent) ==
    IF intent.status \in {"succeeded", "processing"}
    THEN Returned(PaymentResult(TRUE, Some(intent.id), None, None))
    ELSE Returned(PaymentResult(FALSE, None, None, Some(statusMessage(intent.status))))

\* confirmPayment after the retrieve: success only for "succeeded".
confirmPaymentResult(intent) ==
    IF intent.status = "succeeded"
    THEN Returned(PaymentResult(TRUE, Some(intent.id), None, None))
    ELSE Returned(PaymentResult(FALSE, None, None, Some(statusMessage(intent.status))))

RetrieveResolves(id, status) ==
    /\ pc = "paymentIntents.retrieve"
    /\ Settle(Resolves(id, None, status),
              confirmPaymentResult(Resolves(id, None, status)))

RetrieveRejects(m) ==
    /\ pc = "paymentIntents.retrieve"
    /\ Settle(Rejects(m), confirmPaymentCatch(m))

\* A variant of the refund request that never passes the amount on.
refundRequestFullOnly(id, amount) ==
    [api |-> "refunds.create", amount |-> None, currency |-> "",
     payment_intent |-> id,
     metadata |-> [originalAmount |-> "", stripeFees |-> "", platformFees |-> ""]]

\* The argument of stripe.refunds.create: the amount is passed as given,
\* undefined when omitted.
refundRequest(id, amount) ==
    [api |-> "refunds.create", amount |-> amount, currency |-> "",
     payment_intent |-> id,
     metadata |-> [originalAmount |-> "", stripeFees |-> "", platformFees |-> ""]]

\* refundPayment(paymentIntentId, amount?) up to its await.
RefundPayment(id, amount) ==
    /\ Begin([op |-> "refundPayment", paymentIntentId |-> id, amount |-> amount])
    /\ IF stripe = "null" THEN
            /\ outcome' = Some(Returned(NotConfigured))
            /\ providerRequests' = <<>>
            /\ pc' = "idle"
       ELSE
            /\ providerRequests' = <<refundRequest(id, amount)>>
            /\ outcome' = None
            /\ pc' = "refunds.create"

RefundResolves(id) ==
    /\ pc = "refunds.create"
    /\ Settle(Resolves(id, None, ""),
              Returned(PaymentResult(TRUE, Some(id), None, None)))

RefundRejects(m) ==
    /\ pc = "refunds.create"
    /\ Settle(Rejects(m), refundPaymentCatch(m))

\* StripeService.isEnabled()
isEnabled == enabled(secretKeyEnv) /\ stripe # "null"

IsEnabled ==
    /\ pc = "idle"
    /\ isEnabledResult' = Some(isEnabled)
    /\ UNCHANGED <<rounding, feeCall, secretKeyEnv, stripe, pc, call,
                   providerRequests, providerReply, outcome, webhookVars,
                   httpVars>>

\* ------------------------------------------------------- webhook processor
\* The webhook requests, each handled by one call of handleStripeWebhook.
Requests == 1 .. MaxRequests

\* config.app.environment (process.env.NODE_ENV || 'development'); every
\* value but 'development' takes the production path.
Environments == {"development", "production"}

\* The stripe-signature header: None when the request has none.
Signatures == {None, Some("t=1,v1=5257a869")}

\* A variant of the signature test that lets every request through.
hasSignatureAlways(sig) == TRUE

\* A variant that accepts one signature value only.
hasSignatureVerified(sig) == sig = Some("t=1,v1=5257a869")

\* if (!sig): an absent or empty header is falsy.
hasSignature(sig) == sig # None /\ sig # Some("")

\* req.body: id, type and data may each be missing; data may lack its object.
Body(id, type, data) == [id |-> id, type |-> type, data |-> data]
DataWith(objectId) == Some([object |-> Some([id |-> objectId])])
DataWithoutObject == Some([object |-> None])

Bodies ==
    {Body("evt_1", Some("payment_intent.succeeded"), DataWith("pi_1")),
     Body("evt_1", Some("payment_intent.payment_failed"), DataWith("pi_2")),
     Body("evt_2", Some("charge.dispute.created"), DataWith("dp_1")),
     Body("evt_2", Some("foo.bar"), DataWith("pi_1")),
     Body("evt_2", Some("payment_intent.succeeded"), DataWithoutObject),
     Body("evt_1", None, None)}

\* The n-th id uuidv4() generates: each differs from the others and from the
\* provider's ids.
uuidv4(n) == "uuid-" \o toString(n)

\* simulateWebhookEvent(body) for the n-th generated id, made by request r.
\* ref stands for the identity of the object; the timestamp is left out.
simulateWebhookEvent(r, body, n) ==
    [ref |-> r,
     id |-> uuidv4(n),
     type |-> IF body.type = None \/ body.type = Some("")
              THEN Some("payment_intent.succeeded") ELSE body.type,
     data |-> IF body.data = None THEN DataWithoutObject ELSE body.data,
     processed |-> FALSE]

\* createWebhookEvent(stripeEvent), made by request r.
createWebhookEvent(r, stripeEvent) ==
    [ref |-> r,
     id |-> stripeEvent.id,
     type |-> stripeEvent.type,
     data |-> stripeEvent.data,
     processed |-> FALSE]

\* A variant of the switch whose payment-failed case runs the handler of
\* the case above it.
handlerForMisrouted(type) ==
    CASE type = Some("payment_intent.succeeded") -> "handlePaymentSucceeded"
      [] type = Some("payment_intent.payment_failed") -> "handlePaymentSucceeded"
      [] type = Some("charge.dispute.created") -> "handleChargeDispute"
      [] OTHER -> ""

\* A variant of the switch whose default branch runs the first handler.
handlerForDefaultingToFirst(type) ==
    CASE type = Some("payment_intent.payment_failed") -> "handlePaymentFailed"
      [] type = Some("charge.dispute.created") -> "handleChargeDispute"
      [] OTHER -> "handlePaymentSucceeded"

\* The switch of processWebhookEvent: the handler of a type, "" for the
\* default branch.
handlerFor(type) ==
    CASE type = Some("payment_intent.succeeded") -> "handlePaymentSucceeded"
      [] type = Some("payment_intent.payment_failed") -> "handlePaymentFailed"
      [] type = Some("charge.dispute.created") -> "handleChargeDispute"
      [] OTHER -> ""

RecognizedTypes ==
    {"payment_intent.succeeded", "payment_intent.payment_failed",
     "charge.dispute.created"}

\* A variant of the handlers that does not read the payload.
handlerBodyTolerant(event) == None

\* The body of each handler reads event.data.object and then its id: the
\* message of the TypeError it throws, None when it completes.
handlerBody(event) ==
    IF event.data = None
    THEN Some("Cannot read properties of undefined (reading 'object')")
    ELSE IF (CHOOSE d \in event.data : TRUE).object = None
    THEN Some("Cannot read properties of undefined (reading 'id')")
    ELSE None

\* A variant of the dispatch that skips an event id a handler has already
\* been invoked for.
dispatchOncePerId(calls, r, event) ==
    IF handlerFor(event.type) = ""
          \/ \E i \in 1 .. Len(calls) : calls[i].eventId = event.id
    THEN calls
    ELSE Append(calls, [request |-> r, handler |-> handlerFor(event.type),
                        eventId |-> event.id])

\* The handler invocations after the switch has run for the event of
\* request r.
dispatch(calls, r, event) ==
    IF handlerFor(event.type) = "" THEN calls
    ELSE Append(calls, [request |-> r, handler |-> handlerFor(event.type),
                        eventId |-> event.id])

\* A variant that leaves the flag as it is.
markProcessedForgotten(event) == event

\* event.processed = true
markProcessed(event) == [event EXCEPT !.processed = TRUE]

\* Map.prototype.has / get on the entries.
MapHas(m, k) == \E i \in 1 .. Len(m) : m[i].key = k
MapGet(m, k) == {m[i].value : i \in {j \in 1 .. Len(m) : m[j].key = k}}
MapValues(m) == [i \in 1 .. Len(m) |-> m[i].value]

\* A variant of set that leaves an entry already present as it is.
MapSetIfAbsent(m, k, v) ==
    IF MapHas(m, k) THEN m ELSE Append(m, [key |-> k, value |-> v])

\* A variant of set that keeps only the newest entry.
MapSetKeepingNewest(m, k, v) == <<[key |-> k, value |-> v]>>

\* A variant of set that files the event under its type.
MapSetByType(m, k, v) ==
    LET t == IF v.type = None THEN "" ELSE CHOOSE x \in v.type : TRUE
    IN  IF MapHas(m, t)
        THEN [i \in 1 .. Len(m) |->
                IF m[i].key = t THEN [key |-> t, value |-> v] ELSE m[i]]
        ELSE Append(m, [key |-> t, value |-> v])

\* Map.prototype.set: replaces the value of a key in place, or appends.
MapSet(m, k, v) ==
    IF MapHas(m, k)
    THEN [i \in 1 .. Len(m) |->
            IF m[i].key = k THEN [key |-> k, value |-> v] ELSE m[i]]
    ELSE Append(m, [key |-> k, value |-> v])

\* What is written to res.
Response(status, text, received, eventId) ==
    [status |-> status, text |-> text, received |-> received, eventId |-> eventId]

\* res.status(400).send('Missing stripe-signature header')
MissingSignature == Response(400, "Missing stripe-signature header", FALSE, "")

\* A variant of the acknowledgment that reports the event's type as its id.
acknowledgmentWithType(event) ==
    Response(200, "", TRUE, IF event.type = None THEN "" ELSE CHOOSE t \in event.type : TRUE)

\* res.json({ received: true, eventId: event.id })
acknowledgment(event) == Response(200, "", TRUE, event.id)

\* A variant of the catch block that acknowledges the webhook all the same.
webhookErrorAcknowledged(message) == Response(200, "", TRUE, "")

\* res.status(400).send(`Webhook Error: ${error.message}`)
webhookError(message) == Response(400, "Webhook Error: " \o message, FALSE, "")

NoRequest ==
    [pc |-> "none", sig |-> None, body |-> Body("", None, None), event |-> None,
     error |-> None, responses |-> <<>>]

TheEvent(r) == CHOOSE e \in requests[r].event : TRUE

\* handleStripeWebhook(req, res) up to its first await: the signature test,
\* the event, and processWebhookEvent up to the await of the handler (the
\* default branch has no await and runs to the end of processWebhookEvent).
HandleStripeWebhook(r, sig, body) ==
    /\ requests[r].pc = "none"
    /\ IF ~hasSignature(sig) THEN
            /\ requests' = [requests EXCEPT ![r] =
                   [@ EXCEPT !.pc = "done", !.sig = sig, !.body = body,
                             !.responses = Append(@, MissingSignature)]]
            /\ UNCHANGED <<events, handlerCalls, uuidCount>>
       ELSE LET event == IF environment = "development"
                         THEN simulateWebhookEvent(r, body, uuidCount + 1)
                         ELSE createWebhookEvent(r, body)
            IN  /\ uuidCount' = IF environment = "development"
                                THEN uuidCount + 1 ELSE uuidCount
                /\ handlerCalls' = dispatch(handlerCalls, r, event)
                /\ IF handlerFor(event.type) = "" THEN
                        /\ events' = MapSet(events, event.id, markProcessed(event))
                        /\ requests' = [requests EXCEPT ![r] =
                               [@ EXCEPT !.pc = "awaitProcess", !.sig = sig,
                                         !.body = body,
                                         !.event = Some(markProcessed(event))]]
                   ELSE
                        /\ events' = events
                        /\ requests' = [requests EXCEPT ![r] =
                               [@ EXCEPT !.pc = "awaitHandler", !.sig = sig,
                                         !.body = body, !.event = Some(event),
                                         !.error = handlerBody(event)]]
    /\ UNCHANGED <<httpVars, rounding, feeCall, adapterVars, environment, queryResult>>

\* processWebhookEvent after the await of the handler: marks and stores the
\* event, or logs and rethrows what the handler threw.
ResumeProcessWebhookEvent(r) ==
    /\ requests[r].pc = "awaitHandler"
    /\ IF requests[r].error = None THEN
            /\ events' = MapSet(events, TheEvent(r).id, markProcessed(TheEvent(r)))
            /\ requests' = [requests EXCEPT ![r] =
                   [@ EXCEPT !.pc = "awaitProcess",
                             !.event = Some(markProcessed(TheEvent(r)))]]
       ELSE
            /\ events' = events
            /\ requests' = [requests EXCEPT ![r] = [@ EXCEPT !.pc = "awaitProcess"]]
    /\ UNCHANGED <<httpVars, rounding, feeCall, adapterVars, environment, handlerCalls,
                   uuidCount, queryResult>>

\* A variant of the continuation whose catch block logs the failure and
\* sends nothing.
ResumeHandleStripeWebhookSilentCatch(r) ==
    /\ requests[r].pc = "awaitProcess"
    /\ requests' = [requests EXCEPT ![r] =
           [@ EXCEPT !.pc = "done",
                     !.responses =
                        IF requests[r].error = None
                        THEN Append(@, acknowledgment(TheEvent(r))) ELSE @]]
    /\ UNCHANGED <<httpVars, rounding, feeCall, adapterVars, environment, events,
                   handlerCalls, uuidCount, queryResult>>

\* handleStripeWebhook after the await of processWebhookEvent: the
\* acknowledgment, or the catch block's 400.
ResumeHandleStripeWebhook(r) ==
    /\ requests[r].pc = "awaitProcess"
    /\ requests' = [requests EXCEPT ![r] =
           [@ EXCEPT !.pc = "done",
                     !.responses =
                        Append(@, IF requests[r].error = None
                                  THEN acknowledgment(TheEvent(r))
                                  ELSE webhookError(CHOOSE m \in requests[r].error : TRUE))]]
    /\ UNCHANGED <<httpVars, rounding, feeCall, adapterVars, environment, events,
                   handlerCalls, uuidCount, queryResult>>

\* Arguments of the three read operations.
QueryIds == {"evt_1", "evt_2", uuidv4(1)}
QueryTypes == {"payment_intent.succeeded", "foo.bar"}
NoQuery == [op |-> "none", result |-> <<>>]

\* getEvent(eventId): the event, or undefined (no element).
GetEvent(eventId) ==
    /\ queryResult' =
         [op |-> "getEvent",
          result |-> IF MapHas(events, eventId)
                     THEN <<CHOOSE e \in MapGet(events, eventId) : TRUE>> ELSE <<>>]
    /\ UNCHANGED <<httpVars, rounding, feeCall, adapterVars, environment, requests, events,
                   handlerCalls, uuidCount>>

\* getAllEvents()
GetAllEvents ==
    /\ queryResult' = [op |-> "getAllEvents", result |-> MapValues(events)]
    /\ UNCHANGED <<httpVars, rounding, feeCall, adapterVars, environment, requests, events,
                   handlerCalls, uuidCount>>

\* getEventsByType(type)
GetEventsByType(type) ==
    /\ queryResult' =
         [op |-> "getEventsByType",
          result |-> SelectSeq(MapValues(events), LAMBDA e : e.type = Some(type))]
    /\ UNCHANGED <<httpVars, rounding, feeCall, adapterVars, environment, requests, events,
                   handlerCalls, uuidCount>>

\* ----------------------------------------------------------- error handlers
\* config.app.environment as the error handlers may find it.
ErrorEnvironments == Environments \cup {"test"}

\* The errors handed to an error handler: err.status and error.statusCode
\* (absent, or 0, which is falsy, or a code), the message (absent, empty or
\* a text that describes the failure) and the stack.
ErrorStatuses == {None, Some(0), Some(404), Some(503)}
ErrorTexts ==
    {None, Some(""), Some("connect ECONNREFUSED 10.0.0.5:5432"),
     Some("No such payment_intent: pi_1")}
Errors ==
    [status : ErrorStatuses, statusCode : ErrorStatuses, message : ErrorTexts,
     stack : {"Error at Layer.handle (router/layer.js:95:5)"}]

\* x || fallback for a number that may be absent.
NumberOrElse(x, fallback) ==
    IF x = None \/ x = Some(0) THEN fallback ELSE CHOOSE n \in x : TRUE

\* The JSON an error handler sends: the status, the message (absent when
\* the property is undefined), the stack and whether details are there.
ErrorResponse(status, message, stack, details) ==
    [status |-> status, message |-> message, stack |-> stack,
     details |-> details]

\* The error-handling middleware of the server.
serverErrorMiddleware(env, err) ==
    ErrorResponse(NumberOrElse(err.status, 500),
                  IF env = "production" THEN Some("Internal server error")
                  ELSE err.message,
                  IF env # "production" THEN Some(err.stack) ELSE None,
                  FALSE)

\* errorHandler(error, req, res, next)
errorHandler(env, error) ==
    ErrorResponse(NumberOrElse(error.statusCode, 500),
                  Some(OrElse(error.message, "Internal Server Error")),
                  IF env # "production" THEN Some(error.stack) ELSE None,
                  env # "production")

NoErrorResponse == None

\* No request: what req holds between two requests.
NoHttpRequest ==
    [route |-> "", authorization |-> None, user |-> None, body |-> None,
     query |-> None, params |-> None]

\* The server's error-handling middleware runs for err.
ServerErrorMiddleware(err) ==
    /\ errorResponse' = Some([handler |-> "serverErrorMiddleware", error |-> err,
                              response |-> serverErrorMiddleware(environment, err)])
    /\ UNCHANGED <<rounding, feeCall, adapterVars, webhookVars, req, res, layer,
                   nextCalls>>

\* errorHandler runs for error.
ErrorHandler(error) ==
    /\ errorResponse' = Some([handler |-> "errorHandler", error |-> error,
                              response |-> errorHandler(environment, error)])
    /\ UNCHANGED <<rounding, feeCall, adapterVars, webhookVars, req, res, layer,
                   nextCalls>>

\* ---------------------------------------------------- routes and middleware
\* JavaScript values of the request's fields: a string, a number, a boolean
\* or an array.
Str(s) == [t |-> "string", s |-> s, n |-> 0, b |-> FALSE]
Number(n) == [t |-> "number", s |-> "", n |-> n, b |-> FALSE]
Bool(b) == [t |-> "boolean", s |-> "", n |-> 0, b |-> b]
Array == [t |-> "array", s |-> "", n |-> 0, b |-> FALSE]

\* The first character of a string.
CharAt1(s) == SubSeq(s, 1, 1)

\* String.prototype.split(' ')
RECURSIVE splitFrom(_, _, _)
splitFrom(s, word, words) ==
    IF s = "" THEN Append(words, word)
    ELSE IF CharAt1(s) = " " THEN splitFrom(Tail(s), "", Append(words, word))
    ELSE splitFrom(Tail(s), word \o CharAt1(s), words)

split(s) == splitFrom(s, "", <<>>)

\* parseInt(val) for a decimal string without a 0x prefix: leading blanks
\* are skipped, a sign is read, then the digits up to the first other
\* character; NaN (no element) when there is no digit.
DigitValue(c) ==
    CASE c = "0" -> 0 [] c = "1" -> 1 [] c = "2" -> 2 [] c = "3" -> 3
      [] c = "4" -> 4 [] c = "5" -> 5 [] c = "6" -> 6 [] c = "7" -> 7
      [] c = "8" -> 8 [] c = "9" -> 9 [] OTHER -> -1

RECURSIVE trimStart(_)
trimStart(s) == IF s # "" /\ CharAt1(s) = " " THEN trimStart(Tail(s)) ELSE s

RECURSIVE parseDigits(_, _, _)
parseDigits(s, value, seen) ==
    IF s = "" \/ DigitValue(CharAt1(s)) < 0
    THEN IF seen THEN Some(value) ELSE None
    ELSE parseDigits(Tail(s), 10 * value + DigitValue(CharAt1(s)), TRUE)

parseInt(val) ==
    LET s == trimStart(val)
        signed == s # "" /\ CharAt1(s) \in {"-", "+"}
        sign == IF s # "" /\ CharAt1(s) = "-" THEN -1 ELSE 1
    IN  {sign * v : v \in parseDigits(IF signed THEN Tail(s) ELSE s, 0, FALSE)}

\* parseInt(val) || fallback: NaN and 0 are falsy.
parseIntOrElse(val, fallback) == NumberOrElse(parseInt(val), fallback)

Min(a, b) == IF a < b THEN a ELSE b
Max(a, b) == IF a > b THEN a ELSE b

\* jwt.verify(token, config.auth.jwtSecret): the payload of a token this
\* server signed that has not expired; it throws (no element) for any
\* other string.
Payload(id, email, role) ==
    [id |-> id, email |-> email, role |-> role, iat |-> 1700000000,
     exp |-> 1700086400]

jwtVerify(token) ==
    CASE token = "jwt.admin" -> Some(Payload("user-1", "admin@example.com", "admin"))
      [] token = "jwt.coach" -> Some(Payload("user-2", "coach@example.com", "coach"))
      [] token = "jwt.student" -> Some(Payload("user-3", "student@example.com", "student"))
      [] OTHER -> None

\* The authorization headers of the requests: none, empty, a scheme without
\* a token, tokens of three roles, an expired and a forged token.
AuthorizationHeaders ==
    {None, Some(""), Some("Bearer"), Some("Bearer "), Some("Bearer jwt.admin"),
     Some("Bearer jwt.coach"), Some("Bearer jwt.student"),
     Some("Bearer jwt.expired"), Some("Bearer jwt.forged")}

\* What a middleware or handler sends with res.status(...).json(...): who
\* sent it, the status, the error text, the items and the pagination.
Reply(by, status, error, data, pagination) ==
    [by |-> by, status |-> status, error |-> error, data |-> data,
     pagination |-> pagination]

\* What one run of a middleware does: the request as it leaves it, the
\* responses it sent, and whether it called next().
Outcome(request, responses, next) ==
    [req |-> request, responses |-> responses, next |-> next]

\* const token = authHeader && authHeader.split(' ')[1]; an absent header,
\* a header of one word and an empty second word all give a falsy token.
bearerToken(authorization) ==
    IF authorization = None THEN None
    ELSE LET words == split(CHOOSE h \in authorization : TRUE)
         IN  IF Len(words) < 2 \/ words[2] = "" THEN None ELSE Some(words[2])

\* A variant of authenticateToken that lets a request through when its
\* token fails verification.
authenticateTokenLenient(request) ==
    IF bearerToken(request.authorization) = None
    THEN Outcome(request,
                 <<Reply("authenticateToken", 401, "Access token required", <<>>, None)>>,
                 FALSE)
    ELSE Outcome(request, <<>>, TRUE)

\* authenticateToken(req, res, next)
authenticateToken(request) ==
    LET token == bearerToken(request.authorization)
    IN  IF token = None
        THEN Outcome(request,
                     <<Reply("authenticateToken", 401, "Access token required",
                             <<>>, None)>>,
                     FALSE)
        ELSE LET decoded == jwtVerify(CHOOSE t \in token : TRUE)
             IN  IF decoded = None
                 THEN Outcome(request,
                              <<Reply("authenticateToken", 403,
                                      "Invalid or expired token", <<>>, None)>>,
                              FALSE)
                 ELSE Outcome([request EXCEPT !.user =
                                  {[id |-> d.id, email |-> d.email, role |-> d.role] :
                                      d \in decoded}],
                              <<>>, TRUE)

\* The roles argument of requireRole: one role, or an array of roles.
OneRole(role) == [isArray |-> FALSE, one |-> role, many |-> <<>>]
Roles(roles) == [isArray |-> TRUE, one |-> "", many |-> roles]

\* Array.isArray(roles) ? roles : [roles]
allowedRoles(roles) == IF roles.isArray THEN roles.many ELSE <<roles.one>>

\* Array.prototype.includes
includes(array, x) == \E i \in 1 .. Len(array) : array[i] = x

\* A variant of requireRole that lets every authenticated user through.
requireRoleAnyUser(roles, request) ==
    IF request.user = None
    THEN Outcome(request,
                 <<Reply("requireRole", 401, "Authentication required", <<>>, None)>>,
                 FALSE)
    ELSE Outcome(request, <<>>, TRUE)

\* requireRole(roles)(req, res, next)
requireRole(roles, request) ==
    IF request.user = None
    THEN Outcome(request,
                 <<Reply("requireRole", 401, "Authentication required", <<>>, None)>>,
                 FALSE)
    ELSE IF ~includes(allowedRoles(roles), (CHOOSE u \in request.user : TRUE).role)
    THEN Outcome(request,
                 <<Reply("requireRole", 403, "Insufficient permissions", <<>>, None)>>,
                 FALSE)
    ELSE Outcome(request, <<>>, TRUE)

\* The result of schema.parse: the parsed value, or none and the paths of
\* the issues of the ZodError it throws.
Parsed(value) == [value |-> Some(value), issues |-> <<>>]
ZodError(issues) == [value |-> None, issues |-> issues]

\* The issues of a list of checks, each a path and whether it holds.
RECURSIVE issuesOf(_)
issuesOf(checks) ==
    IF checks = <<>> THEN <<>>
    ELSE (IF checks[1].ok THEN <<>> ELSE <<checks[1].path>>)
            \o issuesOf(Tail(checks))

Check(path, ok) == [path |-> path, ok |-> ok]

\* A field that is absent or a string.
OptionalString(field) == \A v \in field : v.t = "string"

\* req.query of the campaign listing: page, limit and status (category and
\* search, two optional strings that only filter the list, are left out).
Query(page, limit, status) == [page |-> page, limit |-> limit, status |-> status]

CampaignStatuses == {"active", "paused", "completed", "cancelled"}

\* campaignsQuerySchema.parse(query): page and limit are strings made
\* numbers by parseInt(val) || 1 and Math.min(parseInt(val) || 10, 100),
\* with defaults '1' and '10' put through the same transforms.
campaignsQuerySchema(query) ==
    LET checks == <<Check("page", OptionalString(query.page)),
                    Check("limit", OptionalString(query.limit)),
                    Check("status", \A v \in query.status :
                                       v.t = "string" /\ v.s \in CampaignStatuses)>>
        page  == IF query.page = None THEN "1" ELSE (CHOOSE v \in query.page : TRUE).s
        limit == IF query.limit = None THEN "10" ELSE (CHOOSE v \in query.limit : TRUE).s
    IN  IF issuesOf(checks) # <<>> THEN ZodError(issuesOf(checks))
        ELSE Parsed(Query(Some(Number(parseIntOrElse(page, 1))),
                          Some(Number(Min(parseIntOrElse(limit, 10), 100))),
                          query.status))

\* req.params of a route with :id.
Params(id) == [id |-> id]

\* commonSchemas.idParamSchema.parse(params)
idParamSchema(params) ==
    LET checks == <<Check("id", \E v \in params.id : v.t = "string" /\ Len(v.s) >= 1)>>
    IN  IF issuesOf(checks) # <<>> THEN ZodError(issuesOf(checks))
        ELSE Parsed(params)

\* req.body of a donation; unknown stands for a key the schema does not name.
DonationBody(amount, campaignId, anonymous, message, unknown) ==
    [amount |-> amount, campaignId |-> campaignId, anonymous |-> anonymous,
     message |-> message, unknown |-> unknown]

\* commonSchemas.createDonationSchema.parse(body): anonymous defaults to
\* false and keys the schema does not name are dropped.
createDonationSchema(body) ==
    LET checks ==
          <<Check("amount", \E v \in body.amount : v.t = "number" /\ v.n > 0),
            Check("campaignId", \E v \in body.campaignId :
                                   v.t = "string" /\ Len(v.s) >= 1),
            Check("anonymous", \A v \in body.anonymous : v.t = "boolean"),
            Check("message", \A v \in body.message :
                                v.t = "string" /\ Len(v.s) <= 500)>>
    IN  IF issuesOf(checks) # <<>> THEN ZodError(issuesOf(checks))
        ELSE Parsed(DonationBody(body.amount, body.campaignId,
                                 IF body.anonymous = None THEN Some(Bool(FALSE))
                                 ELSE body.anonymous,
                                 body.message, None))

\* schema.parse(input) for the three schemas; an absent input is a
\* ZodError at the root.
parse(schema, input) ==
    IF input = None THEN ZodError(<<"">>)
    ELSE LET value == CHOOSE v \in input : TRUE
         IN  CASE schema = "campaignsQuerySchema" -> campaignsQuerySchema(value)
               [] schema = "idParamSchema" -> idParamSchema(value)
               [] schema = "createDonationSchema" -> createDonationSchema(value)

\* validateBody(schema)(req, res, next)
validateBody(schema, request) ==
    LET result == parse(schema, request.body)
    IN  IF result.value = None
        THEN Outcome(request,
                     <<Reply("validateBody", 400, "Validation failed",
                             result.issues, None)>>,
                     FALSE)
        ELSE Outcome([request EXCEPT !.body = result.value], <<>>, TRUE)

\* A variant of validateQuery that goes on to the next layer after its 400.
validateQueryRespondAndContinue(schema, request) ==
    LET result == parse(schema, request.query)
    IN  IF result.value = None
        THEN Outcome(request,
                     <<Reply("validateQuery", 400, "Query validation failed",
                             result.issues, None)>>,
                     TRUE)
        ELSE Outcome([request EXCEPT !.query = result.value], <<>>, TRUE)

\* validateQuery(schema)(req, res, next)
validateQuery(schema, request) ==
    LET result == parse(schema, request.query)
    IN  IF result.value = None
        THEN Outcome(request,
                     <<Reply("validateQuery", 400, "Query validation failed",
                             result.issues, None)>>,
                     FALSE)
        ELSE Outcome([request EXCEPT !.query = result.value], <<>>, TRUE)

\* validateParams(schema)(req, res, next)
validateParams(schema, request) ==
    LET result == parse(schema, request.params)
    IN  IF result.value = None
        THEN Outcome(request,
                     <<Reply("validateParams", 400, "Parameter validation failed",
                             result.issues, None)>>,
                     FALSE)
        ELSE Outcome([request EXCEPT !.params = result.value], <<>>, TRUE)

\* The mock campaigns of the listing, with their status.
Campaigns ==
    <<[id |-> "campaign-1", status |-> "active"],
      [id |-> "campaign-2", status |-> "active"],
      [id |-> "campaign-3", status |-> "paused"]>>

\* Array.prototype.slice(start, end): a negative index counts from the end.
slice(array, start, end) ==
    LET len  == Len(array)
        from == IF start < 0 THEN Max(len + start, 0) ELSE Min(start, len)
        to   == IF end < 0 THEN Max(len + end, 0) ELSE Min(end, len)
    IN  SubSeq(array, from + 1, to)

\* Math.ceil(a / b) for integers a and b, b not 0.
ceilOfQuotient(a, b) == IF b > 0 THEN -((-a) \div b) ELSE -(a \div (-b))

\* The handler of GET /campaigns: the page of campaigns and the pagination.
getCampaigns(request) ==
    LET query    == CHOOSE q \in request.query : TRUE
        pageNum  == (CHOOSE v \in query.page : TRUE).n
        limitNum == (CHOOSE v \in query.limit : TRUE).n
        filteredCampaigns ==
            IF query.status = None THEN Campaigns
            ELSE SelectSeq(Campaigns,
                           LAMBDA c : c.status = (CHOOSE v \in query.status : TRUE).s)
        startIndex == (pageNum - 1) * limitNum
        paginatedCampaigns ==
            slice(filteredCampaigns, startIndex, startIndex + limitNum)
    IN  Outcome(request,
                <<Reply("handler", 200, "",
                        [i \in 1 .. Len(paginatedCampaigns) |-> paginatedCampaigns[i].id],
                        Some([page |-> pageNum, limit |-> limitNum,
                              total |-> Len(filteredCampaigns),
                              pages |-> ceilOfQuotient(Len(filteredCampaigns),
                                                       limitNum)]))>>,
                FALSE)

\* The handlers of DELETE /donations/:id and GET /campaigns/stats/overview.
deleteDonation(request) ==
    Outcome(request, <<Reply("handler", 200, "", <<>>, None)>>, FALSE)

getCampaignStats(request) ==
    Outcome(request, <<Reply("handler", 200, "", <<>>, None)>>, FALSE)

\* The handler of POST /donations.
createDonation(request) ==
    IF request.user = None
    THEN Outcome(request,
                 <<Reply("handler", 401, "Authentication required", <<>>, None)>>,
                 FALSE)
    ELSE Outcome(request, <<Reply("handler", 201, "", <<>>, None)>>, FALSE)

\* One layer of a route's stack.
Layer(name, roles, schema) == [name |-> name, roles |-> roles, schema |-> schema]
NoRoles == Roles(<<>>)

Routes ==
    {"GET /campaigns", "DELETE /donations/:id", "GET /campaigns/stats/overview",
     "POST /donations"}

\* The stack each route was registered with.
Stack(route) ==
    CASE route = "GET /campaigns" ->
            <<Layer("validateQuery", NoRoles, "campaignsQuerySchema"),
              Layer("getCampaigns", NoRoles, "")>>
      [] route = "DELETE /donations/:id" ->
            <<Layer("authenticateToken", NoRoles, ""),
              Layer("requireRole", OneRole("admin"), ""),
              Layer("validateParams", NoRoles, "idParamSchema"),
              Layer("deleteDonation", NoRoles, "")>>
      [] route = "GET /campaigns/stats/overview" ->
            <<Layer("authenticateToken", NoRoles, ""),
              Layer("requireRole", Roles(<<"coach", "admin">>), ""),
              Layer("getCampaignStats", NoRoles, "")>>
      [] route = "POST /donations" ->
            <<Layer("authenticateToken", NoRoles, ""),
              Layer("validateBody", NoRoles, "createDonationSchema"),
              Layer("createDonation", NoRoles, "")>>
      [] OTHER -> <<>>

\* The query strings of the listing: page and limit absent, repeated (an
\* array), or a string.
PageValues ==
    {None, Some(Array), Some(Str("1")), Some(Str("2")), Some(Str("0")),
     Some(Str("-1")), Some(Str("abc")), Some(Str(" 3x"))}
LimitValues ==
    {None, Some(Str("1")), Some(Str("2")), Some(Str("100")), Some(Str("101")),
     Some(Str("0")), Some(Str("-1")), Some(Str("-2")), Some(Str("abc"))}
StatusValues == {None, Some(Str("active")), Some(Str("paused")),
                 Some(Str("completed")), Some(Str("archived"))}

\* A message of n characters.
RECURSIVE Doubled(_, _)
Doubled(s, times) == IF times = 0 THEN s ELSE Doubled(s \o s, times - 1)

MessageOfLength(n) == SubSeq(Doubled("a", 10), 1, n)

\* The bodies of POST /donations.
DonationBodies ==
    {DonationBody(amount, campaignId, anonymous, message, unknown) :
        amount \in {None, Some(Number(2500)), Some(Number(0)), Some(Str("2500"))},
        campaignId \in {None, Some(Str("")), Some(Str("campaign-1"))},
        anonymous \in {None, Some(Bool(TRUE))},
        message \in {None, Some(Str(MessageOfLength(501)))},
        unknown \in {None, Some(Str("isAdmin"))}}

\* A request as it reaches the stack of its route.
HttpRequest(route, authorization, query, params, body) ==
    [route |-> route, authorization |-> authorization, user |-> None,
     body |-> body, query |-> query, params |-> params]

\* The requests the routes receive.  Express matches :id to a non-empty
\* segment of the path, and req.query and the parsed body are objects.
HttpRequests ==
    {HttpRequest("GET /campaigns", None, Some(Query(page, limit, status)), None, None) :
        page \in PageValues, limit \in LimitValues, status \in StatusValues}
    \cup {HttpRequest("DELETE /donations/:id", authorization, None,
                      Some(Params(Some(Str("donation-1")))), None) :
             authorization \in AuthorizationHeaders}
    \cup {HttpRequest("GET /campaigns/stats/overview", authorization, None, None, None) :
             authorization \in AuthorizationHeaders}
    \cup {HttpRequest("POST /donations", authorization, None, None, Some(body)) :
             authorization \in {None, Some("Bearer jwt.forged"),
                                Some("Bearer jwt.student")},
             body \in DonationBodies}

\* The layer the request is at (none once a response ended it).
CurrentLayer == Stack(req.route)[layer]

\* What a layer's run leaves: the request, the responses, the call of next.
Run(name, result) ==
    /\ layer > 0
    /\ CurrentLayer.name = name
    /\ req' = result.req
    /\ res' = res \o result.responses
    /\ nextCalls' = IF result.next THEN Append(nextCalls, name) ELSE nextCalls
    /\ layer' = IF result.next THEN layer + 1 ELSE 0
    /\ UNCHANGED <<rounding, feeCall, adapterVars, webhookVars, errorResponse>>

\* Express hands a request to the first layer of its route.
ReceiveRequest(request) ==
    /\ layer = 0
    /\ req = NoHttpRequest
    /\ req' = request
    /\ res' = <<>>
    /\ nextCalls' = <<>>
    /\ layer' = 1
    /\ UNCHANGED <<rounding, feeCall, adapterVars, webhookVars, errorResponse>>

AuthenticateToken == Run("authenticateToken", authenticateToken(req))
RequireRole == Run("requireRole", requireRole(CurrentLayer.roles, req))
ValidateBody == Run("validateBody", validateBody(CurrentLayer.schema, req))
ValidateQuery == Run("validateQuery", validateQuery(CurrentLayer.schema, req))
ValidateParams == Run("validateParams", validateParams(CurrentLayer.schema, req))
GetCampaigns == Run("getCampaigns", getCampaigns(req))
DeleteDonation == Run("deleteDonation", deleteDonation(req))
GetCampaignStats == Run("getCampaignStats", getCampaignStats(req))
CreateDonation == Run("createDonation", createDonation(req))

\* --------------------------------------------------------- specifications
EnvValues == {None, Some(""), Some(DevelopmentKey), Some("sk_live_51H")}

\* The webhook processor before any request.
NoEvents ==
    /\ requests = [r \in Requests |-> NoRequest]
    /\ events = <<>>
    /\ handlerCalls = <<>>
    /\ uuidCount = 0
    /\ queryResult = NoQuery

WebhookAtRest == environment = "development" /\ NoEvents

\* The adapter without a key and before any operation.
AdapterAtRest ==
    /\ rounding = "round"
    /\ feeCall = None
    /\ secretKeyEnv = None
    /\ stripe = stripeInit(secretKeyEnv)
    /\ pc = "idle"
    /\ call = [op |-> "none"]
    /\ providerRequests = <<>>
    /\ providerReply = None
    /\ outcome = None
    /\ isEnabledResult = None

\* No error handler has run and no request is in a route's stack.
HttpAtRest ==
    /\ errorResponse = NoErrorResponse
    /\ req = NoHttpRequest
    /\ res = <<>>
    /\ layer = 0
    /\ nextCalls = <<>>

Init ==
    /\ rounding \in RoundingModes
    /\ feeCall = None
    /\ secretKeyEnv \in EnvValues
    /\ stripe = stripeInit(secretKeyEnv)
    /\ pc = "idle"
    /\ call = [op |-> "none"]
    /\ providerRequests = <<>>
    /\ providerReply = None
    /\ outcome = None
    /\ isEnabledResult = None
    /\ WebhookAtRest
    /\ HttpAtRest

\* The payment gateway adapter.
Next ==
    \/ \E amount \in AdapterAmounts, currency \in Currencies :
          CreatePaymentIntent([amount |-> amount, currency |-> currency])
    \/ \E id \in IntentIds, secret \in ClientSecrets : CreateResolves(id, secret)
    \/ \E m \in ErrorMessages : CreateRejects(m)
    \/ \E id \in IntentIds : ConfirmPayment(id)
    \/ \E id \in IntentIds, status \in Statuses : RetrieveResolves(id, status)
    \/ \E m \in ErrorMessages : RetrieveRejects(m)
    \/ \E id \in IntentIds, amount \in {None} \cup {Some(a) : a \in AdapterAmounts} :
          RefundPayment(id, amount)
    \/ \E id \in IntentIds : RefundResolves(id)
    \/ \E m \in ErrorMessages : RefundRejects(m)
    \/ IsEnabled

Spec == Init /\ [][Next]_vars

\* The fee calculator on its own, with the adapter at rest.
FeeInit == Init /\ secretKeyEnv = None
FeeNext == \E a \in FeeInputs : CalculateFees(a)
FeeSpec == FeeInit /\ [][FeeNext]_vars

\* The webhook processor, with the fee calculator and the adapter at rest.
WebhookInit ==
    /\ rounding = "round"
    /\ feeCall = None
    /\ secretKeyEnv = None
    /\ stripe = stripeInit(secretKeyEnv)
    /\ pc = "idle"
    /\ call = [op |-> "none"]
    /\ providerRequests = <<>>
    /\ providerReply = None
    /\ outcome = None
    /\ isEnabledResult = None
    /\ environment \in Environments
    /\ NoEvents
    /\ HttpAtRest

WebhookNext ==
    \/ \E r \in Requests, sig \in Signatures, body \in Bodies :
          HandleStripeWebhook(r, sig, body)
    \/ \E r \in Requests : ResumeProcessWebhookEvent(r)
    \/ \E r \in Requests : ResumeHandleStripeWebhook(r)
    \/ \E eventId \in QueryIds : GetEvent(eventId)
    \/ GetAllEvents
    \/ \E type \in QueryTypes : GetEventsByType(type)

WebhookSpec == WebhookInit /\ [][WebhookNext]_vars

\* The stripe-signature headers a delivery may carry: none, an empty one,
\* and two different non-empty values.
AnySignatures == Signatures \cup {Some(""), Some("t=2,v1=0000000000")}

\* The deliveries alone, with any of these headers.
DeliveryNext ==
    \/ \E r \in Requests, sig \in AnySignatures, body \in Bodies :
          HandleStripeWebhook(r, sig, body)
    \/ \E r \in Requests : ResumeProcessWebhookEvent(r)
    \/ \E r \in Requests : ResumeHandleStripeWebhook(r)

DeliverySpec == WebhookInit /\ [][DeliveryNext]_vars

\* The deliveries alone, each running to its response: a handler that was
\* dispatched terminates, and the continuation of an await is run.
AnswerNext ==
    \/ \E r \in Requests, sig \in Signatures, body \in Bodies :
          HandleStripeWebhook(r, sig, body)
    \/ \E r \in Requests : ResumeProcessWebhookEvent(r)
    \/ \E r \in Requests : ResumeHandleStripeWebhook(r)

AnswerSpec ==
    /\ WebhookInit
    /\ [][AnswerNext]_vars
    /\ \A r \in Requests :
          /\ WF_vars(ResumeProcessWebhookEvent(r))
          /\ WF_vars(ResumeHandleStripeWebhook(r))

\* The two error handlers, in each environment.
ErrorInit ==
    /\ AdapterAtRest
    /\ environment \in ErrorEnvironments
    /\ NoEvents
    /\ HttpAtRest

ErrorNext ==
    \/ \E err \in Errors : ServerErrorMiddleware(err)
    \/ \E error \in Errors : ErrorHandler(error)

ErrorSpec == ErrorInit /\ [][ErrorNext]_vars

\* One request through the stack of its route.
RouteInit ==
    /\ AdapterAtRest
    /\ environment \in Environments
    /\ NoEvents
    /\ HttpAtRest

RouteNext ==
    \/ \E request \in HttpRequests : ReceiveRequest(request)
    \/ AuthenticateToken
    \/ RequireRole
    \/ ValidateBody
    \/ ValidateQuery
    \/ ValidateParams
    \/ GetCampaigns
    \/ DeleteDonation
    \/ GetCampaignStats
    \/ CreateDonation

RouteSpec == RouteInit /\ [][RouteNext]_vars

\* ================================================================ claims
\* A positive integer number of minor units, stated without the model's own
\* amount check.
PositiveInteger(a) == a.num > 0 /\ a.num % a.den = 0

\* The gross amount of a calculateFees call and its breakdown.
Gross(c) == c.arg.num \div c.arg.den
Breakdown(c) == c.res.val

\* x is q per mille of g made an integer: within one unit of the exact value.
IsPermilleOf(x, q, g) == /\ x \in Int
                         /\ 1000 * x - q * g < 1000
                         /\ q * g - 1000 * x < 1000

\* C1: for every positive integer gross amount g, calculateFees returns a
\* breakdown of integers with stripeFees + platformFees + netAmount = g.
C1_FeesConserved ==
    \A c \in feeCall :
        PositiveInteger(c.arg) =>
            /\ c.res.ok
            /\ Breakdown(c).stripeFees \in Int
            /\ Breakdown(c).platformFees \in Int
            /\ Breakdown(c).netAmount \in Int
            /\ Breakdown(c).stripeFees + Breakdown(c).platformFees
                 + Breakdown(c).netAmount = Gross(c)

\* A breakdown was returned for a gross amount whose two percentages are both
\* fractional (2.9% of 190 is 5.51, 5% of 190 is 9.5).
C1_Witness ==
    \E c \in feeCall : /\ c.arg = Num(190, 1)
                       /\ c.res.ok
                       /\ Breakdown(c).netAmount > 0

\* C3: calculateFees answers every gross amount that is not a positive
\* integer by throwing InvalidAmount, never by returning a breakdown.
C3_InvalidAmountRejected ==
    \A c \in feeCall :
        ~PositiveInteger(c.arg) => ~c.res.ok /\ c.res.err = "InvalidAmount"

\* calculateFees was called with 10.5 and threw.
C3_Witness ==
    \E c \in feeCall : c.arg = Num(21, 2) /\ ~c.res.ok

ProviderOps == {"createPaymentIntent", "confirmPayment", "refundPayment"}

\* The operation has given its caller a PaymentResult r.
ReturnedResult(r) == outcome = Some([kind |-> "return", result |-> r])

\* The provider call of the current operation failed.
ProviderFailed == \E reply \in providerReply : ~reply.ok

\* C2: the fees createPaymentIntent computes are 2.9% of the amount plus 30
\* and 5% of the amount, each an integer; for 5000 they are 175 and 250 and
\* the total charge is 5425.
C2_FeeSchedule ==
    (call.op = "createPaymentIntent" /\ Len(providerRequests) = 1) =>
        LET g == call.data.amount.num \div call.data.amount.den
        IN  /\ IsPermilleOf(call.locals.fees - 30, 29, g)
            /\ IsPermilleOf(call.locals.platformFees, 50, g)
            /\ g = 5000 =>
                 /\ call.locals.fees = 175
                 /\ call.locals.platformFees = 250
                 /\ call.locals.totalAmount = 5425
                 /\ providerRequests[1].amount = Some(Num(5425, 1))

\* The provider has been asked for an intent of 5425 for a request of 5000.
C2_Witness ==
    /\ call.op = "createPaymentIntent"
    /\ call.data.amount = Num(5000, 1)
    /\ Len(providerRequests) = 1
    /\ providerRequests[1].amount = Some(Num(5425, 1))

\* C5: with the adapter enabled, createPaymentIntent of a positive integer
\* amount asks the provider once for an intent of amount + processor fee +
\* platform fee in the request's currency, and when the provider creates the
\* intent it returns success with the provider's intent id.
C5_CreateChargesGrossPlusFees ==
    (call.op = "createPaymentIntent" /\ stripe = "client"
        /\ PositiveInteger(call.data.amount)) =>
        LET g == call.data.amount.num \div call.data.amount.den
        IN  /\ Len(providerRequests) = 1
            /\ providerRequests[1].api = "paymentIntents.create"
            /\ providerRequests[1].amount =
                 Some(Num(g + call.locals.fees + call.locals.platformFees, 1))
            /\ IsPermilleOf(call.locals.fees - 30, 29, g)
            /\ IsPermilleOf(call.locals.platformFees, 50, g)
            /\ providerRequests[1].currency = call.data.currency
            /\ \A reply \in providerReply :
                 reply.ok => \E o \in outcome :
                                /\ o.kind = "return"
                                /\ o.result.success
                                /\ o.result.paymentIntentId = Some(reply.id)
                                /\ o.result.error = None

\* createPaymentIntent for 190 eur returned the intent the provider created.
C5_Witness ==
    /\ call.op = "createPaymentIntent"
    /\ call.data = [amount |-> Num(190, 1), currency |-> "eur"]
    /\ \E reply \in providerReply : reply.ok /\ reply.id = "pi_2"
    /\ \E o \in outcome : o.result.success /\ o.result.paymentIntentId = Some("pi_2")

\* C6: createPaymentIntent of an amount that is zero, negative or not an
\* integer ends in a failure result, and no request goes to the provider.
C6_InvalidAmountNeverReachesProvider ==
    (call.op = "createPaymentIntent" /\ ~PositiveInteger(call.data.amount)) =>
        /\ providerRequests = <<>>
        /\ pc = "idle"
        /\ \E o \in outcome : o.kind = "return" /\ ~o.result.success

\* The enabled adapter refused an amount of 0.5 without a provider call.
C6_Witness ==
    /\ stripe = "client"
    /\ call.op = "createPaymentIntent"
    /\ call.data.amount = Num(1, 2)
    /\ providerRequests = <<>>
    /\ \E o \in outcome : ~o.result.success /\ o.result.error = Some("InvalidAmount")

\* C7: no operation throws to its caller or calls the provider twice, and
\* when the provider call fails the operation returns success=false with a
\* non-empty error message.
C7_ProviderFailureIsAResult ==
    (call.op \in ProviderOps) =>
        /\ Len(providerRequests) <= 1
        /\ \A o \in outcome : o.kind = "return"
        /\ ProviderFailed =>
             /\ Len(providerRequests) = 1
             /\ \E o \in outcome : /\ o.kind = "return"
                                   /\ ~o.result.success
                                   /\ o.result.error # None
                                   /\ o.result.error # Some("")

\* The provider call of createPaymentIntent failed with an error that has no
\* message, and the operation has returned.
C7_Witness ==
    /\ call.op = "createPaymentIntent"
    /\ providerReply = Some(Rejects(None))
    /\ outcome # None

\* C8: confirmPayment returns success exactly when the provider answered
\* with status "succeeded"; for any other status it returns success=false
\* with the error "Payment status: <status>".
C8_ConfirmSucceedsOnlyWhenSucceeded ==
    (call.op = "confirmPayment") =>
        \A o \in outcome :
            /\ o.result.success <=>
                 \E reply \in providerReply : reply.ok /\ reply.status = "succeeded"
            /\ \A reply \in providerReply :
                 (reply.ok /\ reply.status # "succeeded") =>
                     /\ ~o.result.success
                     /\ o.result.error = Some("Payment status: " \o reply.status)

\* confirmPayment reported an intent that is still processing.
C8_Witness ==
    /\ call.op = "confirmPayment"
    /\ \E reply \in providerReply : reply.ok /\ reply.status = "processing"
    /\ \E o \in outcome : o.result.error = Some("Payment status: processing")

\* C9: with the adapter enabled, refundPayment asks the provider once for a
\* refund of the given intent, with no amount (a full refund) when the
\* amount is omitted and with exactly the given amount otherwise, and it
\* returns success exactly when that provider call succeeds.
C9_RefundFullOrPartial ==
    (call.op = "refundPayment" /\ stripe = "client") =>
        /\ Len(providerRequests) = 1
        /\ providerRequests[1].api = "refunds.create"
        /\ providerRequests[1].payment_intent = call.paymentIntentId
        /\ providerRequests[1].amount = call.amount
        /\ \A o \in outcome :
             o.result.success <=> \E reply \in providerReply : reply.ok

\* A partial refund of 190 was requested and the provider made it.
C9_Witness ==
    /\ call.op = "refundPayment"
    /\ call.amount = Some(Num(190, 1))
    /\ Len(providerRequests) = 1
    /\ providerRequests[1].amount = Some(Num(190, 1))
    /\ \E reply \in providerReply : reply.ok
    /\ \E o \in outcome : o.result.success

\* C10: with the secret key unset, empty or the development placeholder the
\* adapter is disabled; a disabled adapter answers every operation with the
\* fixed "not configured" failure and no provider call; and isEnabled()
\* returns true exactly when the adapter is not disabled.
C10_DisabledMode ==
    /\ (secretKeyEnv \in {None, Some(""), Some("sk_test_development_key")})
          => stripe = "null"
    /\ (stripe = "null" /\ call.op \in ProviderOps) =>
          /\ providerRequests = <<>>
          /\ providerReply = None
          /\ pc = "idle"
          /\ ReturnedResult([success |-> FALSE, paymentIntentId |-> None,
                             clientSecret |-> None,
                             error |-> Some("Stripe is not configured or enabled")])
    /\ \A e \in isEnabledResult : e <=> stripe # "null"
    /\ (call.op \in ProviderOps /\ \E e \in isEnabledResult : e) =>
          \A o \in outcome :
              o.result.error # Some("Stripe is not configured or enabled")

\* With the placeholder key in the environment, a refund was refused
\* without a provider call and isEnabled() returned false.
C10_Witness ==
    /\ secretKeyEnv = Some("sk_test_development_key")
    /\ call.op = "refundPayment"
    /\ ReturnedResult(NotConfigured)
    /\ providerRequests = <<>>
    /\ isEnabledResult = Some(FALSE)

\* ------------------------------------------------ webhook processor claims
\* Request r has arrived with a signature header.
Signed(r) == requests[r].pc # "none" /\ requests[r].sig # None

\* The handler invocations made for request r.
CallsOf(r) == SelectSeq(handlerCalls, LAMBDA c : c.request = r)

\* The handler spec.md 4.3 gives a type: payment succeeded, payment failed,
\* dispute created.
MatchingHandler(type) ==
    CASE type = "payment_intent.succeeded" -> "handlePaymentSucceeded"
      [] type = "payment_intent.payment_failed" -> "handlePaymentFailed"
      [] type = "charge.dispute.created" -> "handleChargeDispute"

\* The type the body of request r names is one of the three recognized ones.
RecognizedBody(r) ==
    \E t \in {"payment_intent.succeeded", "payment_intent.payment_failed",
              "charge.dispute.created"} : requests[r].body.type = Some(t)

\* The payload of request r carries data.object.
HasDataObject(r) ==
    \E d \in requests[r].body.data : d.object # None

\* The store holds an entry with processed=true under the id of r's event.
StoredProcessed(r) ==
    \E e \in requests[r].event :
        \E i \in 1 .. Len(events) :
            events[i].key = e.id /\ events[i].value.processed

\* C11: a request without a signature header is answered with the 400
\* "Missing stripe-signature header" in the step that receives it, and that
\* step builds no event, invokes no handler and leaves the store as it was.
C11_MissingSignatureHasNoEffect ==
    [][\A r \in Requests :
          (requests[r].pc = "none" /\ requests'[r].pc # "none"
              /\ requests'[r].sig = None) =>
             /\ requests'[r].pc = "done"
             /\ requests'[r].responses =
                  <<[status |-> 400, text |-> "Missing stripe-signature header",
                     received |-> FALSE, eventId |-> ""]>>
             /\ requests'[r].event = None
             /\ events' = events
             /\ handlerCalls' = handlerCalls]_vars

\* A request without a signature was answered with 400 while the store
\* held an event of another request.
C11_Witness ==
    \E r \in Requests :
        /\ requests[r].pc = "done"
        /\ requests[r].sig = None
        /\ Len(requests[r].responses) = 1
        /\ requests[r].responses[1].status = 400
        /\ requests[r].event = None
        /\ Len(events) = 1

\* C12 as claimed: every completed signed request of a recognized type has
\* invoked exactly one handler, the one matching its type, once, and its
\* event's id is in the store with processed=true.
C12_RecognizedTypeIsProcessed ==
    \A r \in Requests :
        (requests[r].pc = "done" /\ Signed(r) /\ RecognizedBody(r)) =>
            /\ Len(CallsOf(r)) = 1
            /\ \A t \in requests[r].body.type :
                  CallsOf(r)[1].handler = MatchingHandler(t)
            /\ StoredProcessed(r)

\* C12 as amended: every signed request of a recognized type invokes exactly
\* one handler, the one matching its type, once; when its payload carries
\* data.object (so that the handler completes), the completed request has
\* left its event's id in the store with processed=true.
C12_RecognizedTypeIsHandledOnce ==
    \A r \in Requests :
        (Signed(r) /\ RecognizedBody(r)) =>
            /\ Len(CallsOf(r)) = 1
            /\ \A t \in requests[r].body.type :
                  CallsOf(r)[1].handler = MatchingHandler(t)
            /\ \A e \in requests[r].event : CallsOf(r)[1].eventId = e.id
            /\ (requests[r].pc = "done" /\ HasDataObject(r)) =>
                  /\ StoredProcessed(r)
                  /\ \A e \in requests[r].event : e.processed

\* A payment-failed webhook with a data.object has completed: one call of
\* handlePaymentFailed, and its event is stored as processed.
C12_Witness ==
    \E r \in Requests :
        /\ requests[r].pc = "done"
        /\ requests[r].body.type = Some("payment_intent.payment_failed")
        /\ Len(CallsOf(r)) = 1
        /\ CallsOf(r)[1].handler = "handlePaymentFailed"
        /\ StoredProcessed(r)

\* The event of request r has a type outside the three recognized ones
\* (an absent type included).
UnrecognizedEvent(r) ==
    \E e \in requests[r].event :
        \A t \in {"payment_intent.succeeded", "payment_intent.payment_failed",
                  "charge.dispute.created"} : e.type # Some(t)

\* C13: a signed webhook whose type is not recognized invokes no handler,
\* is in the store with processed=true, and is answered with the
\* acknowledgment received:true carrying its id, never with an error.
C13_UnknownTypeIsAcknowledged ==
    \A r \in Requests :
        (Signed(r) /\ UnrecognizedEvent(r)) =>
            /\ Len(CallsOf(r)) = 0
            /\ requests[r].error = None
            /\ StoredProcessed(r)
            /\ \A i \in 1 .. Len(requests[r].responses) :
                  /\ requests[r].responses[i].status = 200
                  /\ requests[r].responses[i].received
            /\ requests[r].pc = "done" =>
                  \E e \in requests[r].event :
                      requests[r].responses =
                          <<[status |-> 200, text |-> "", received |-> TRUE,
                             eventId |-> e.id]>>

\* A "foo.bar" webhook was acknowledged and is stored as processed, and no
\* handler has run at all.
C13_Witness ==
    \E r \in Requests :
        /\ requests[r].pc = "done"
        /\ requests[r].body.type = Some("foo.bar")
        /\ Len(requests[r].responses) = 1
        /\ requests[r].responses[1].received
        /\ StoredProcessed(r)
        /\ handlerCalls = <<>>

\* C14: when the handler of a request throws, the request's event never
\* has processed=true and never enters the store, and the request is
\* answered with the 400 "Webhook Error: <message>" and no acknowledgment.
C14_HandlerFailureIsSurfaced ==
    \A r \in Requests :
        \A m \in requests[r].error :
            /\ \A e \in requests[r].event : ~e.processed
            /\ \A i \in 1 .. Len(events) : events[i].value.ref # r
            /\ \A i \in 1 .. Len(requests[r].responses) :
                  ~requests[r].responses[i].received
            /\ requests[r].pc = "done" =>
                  requests[r].responses =
                      <<[status |-> 400, text |-> "Webhook Error: " \o m,
                         received |-> FALSE, eventId |-> ""]>>

\* A payment-succeeded webhook without data.object was answered with the
\* handler's TypeError as a 400.
C14_Witness ==
    \E r \in Requests :
        /\ requests[r].pc = "done"
        /\ requests[r].body.data = Some([object |-> None])
        /\ Len(CallsOf(r)) = 1
        /\ Len(requests[r].responses) = 1
        /\ requests[r].responses[1].status = 400
        /\ requests[r].responses[1].text =
              "Webhook Error: Cannot read properties of undefined (reading 'id')"

\* C15 as claimed: from receipt on, the event of every signed request is
\* recorded in the store under its id (with processed=false until its
\* handler completes, and for good when its handler fails).
C15_RecordedOnReceipt ==
    \A r \in Requests :
        Signed(r) =>
            \E e \in requests[r].event :
                \E i \in 1 .. Len(events) :
                    events[i].key = e.id /\ events[i].value.ref = r

\* C15 as amended: an event is created on receipt but recorded in the
\* store, keyed by its id, only once its handler (if any) has completed and
\* its flag is set; the flag changes at most once, from false to true, and
\* only after the handler completed; an event whose handler fails keeps
\* processed=false and is never recorded; a processed event never returns
\* to processed=false.
C15_EventStateMachine ==
    [][/\ \A r \in Requests : \A e2 \in requests'[r].event :
             \* a new event is processed at once only if it has no handler
             /\ (requests[r].event = None /\ e2.processed) =>
                   Len(CallsOf(r)') = 0
             \* the flag goes from false to true only, after the handler
             /\ \A e \in requests[r].event :
                   /\ e.processed => e2 = e
                   /\ (~e.processed /\ e2.processed) =>
                         /\ requests[r].pc = "awaitHandler"
                         /\ requests[r].error = None
                         /\ Len(CallsOf(r)) = 1
                         /\ e2 = [e EXCEPT !.processed = TRUE]
             \* a processed event is in the store under its id; any other
             \* event of a request in progress or failed is not
             /\ e2.processed =>
                   \E i \in 1 .. Len(events') :
                       events'[i].key = e2.id /\ events'[i].value.processed
             /\ ~e2.processed =>
                   \A i \in 1 .. Len(events') : events'[i].value.ref # r
             /\ requests'[r].error # None => ~e2.processed
       \* every entry is a processed event under its own id
       /\ \A i \in 1 .. Len(events') :
             /\ events'[i].value.processed
             /\ events'[i].key = events'[i].value.id
             /\ requests'[events'[i].value.ref].event = {events'[i].value}]_vars

\* One request is suspended in its handler with an unprocessed event that
\* is not in the store, while the event of another has been processed and
\* stored.
C15_Witness ==
    \E r1, r2 \in Requests :
        /\ requests[r1].pc = "awaitHandler"
        /\ \E e \in requests[r1].event : ~e.processed /\ ~MapHas(events, e.id)
        /\ requests[r2].pc = "done"
        /\ \E e \in requests[r2].event : e.processed /\ MapGet(events, e.id) = {e}
        /\ Len(CallsOf(r2)) = 1

\* C16: a signed delivery of a recognized type whose id is already in the
\* store as processed invokes the matching handler again, and the step
\* that stores a delivery leaves exactly one entry under its id, the one of
\* that delivery, in the place of the entry the id had (if any).
C16_ResubmissionReprocesses ==
    [][\A r \in Requests : \A e2 \in requests'[r].event :
          /\ (/\ requests[r].pc = "none"
              /\ MapHas(events, e2.id)
              /\ \A e \in MapGet(events, e2.id) : e.processed
              /\ \E t \in RecognizedTypes : e2.type = Some(t)) =>
                 /\ Len(handlerCalls') = Len(handlerCalls) + 1
                 /\ handlerCalls'[Len(handlerCalls')] =
                       [request |-> r,
                        handler |-> MatchingHandler(CHOOSE t \in e2.type : TRUE),
                        eventId |-> e2.id]
          /\ (e2.processed /\ requests[r].event # {e2}) =>
                 /\ MapGet(events', e2.id) = {e2}
                 /\ Cardinality({i \in 1 .. Len(events') :
                                    events'[i].key = e2.id}) = 1
                 /\ MapHas(events, e2.id) =>
                       /\ Len(events') = Len(events)
                       /\ \A i \in 1 .. Len(events) :
                             events[i].key # e2.id => events'[i] = events[i]]_vars

\* Two completed deliveries of one id: the handler ran for each, and the
\* single entry under the id is the processed event of the second.
C16_Witness ==
    \E r1, r2 \in Requests :
        /\ r1 # r2
        /\ requests[r1].pc = "done" /\ requests[r2].pc = "done"
        /\ Len(CallsOf(r1)) = 1 /\ Len(CallsOf(r2)) = 1
        /\ handlerCalls[1].request = r1 /\ handlerCalls[2].request = r2
        /\ TheEvent(r1).id = TheEvent(r2).id
        /\ TheEvent(r1).processed /\ TheEvent(r2).processed
        /\ Len(events) = 1
        /\ events[1] = [key |-> TheEvent(r2).id, value |-> TheEvent(r2)]

\* The signed deliveries received so far that carry event id k and a
\* recognized type.
DeliveriesOf(k) ==
    {r \in Requests :
        /\ Signed(r)
        /\ \E e \in requests[r].event :
              e.id = k /\ \E t \in RecognizedTypes : e.type = Some(t)}

\* The ids of the events received so far.
ReceivedIds == {e.id : e \in UNION {requests[r].event : r \in Requests}}

\* C17: nothing makes the processing of an event id exclusive. For every
\* id the handler has run once per delivery received, however the
\* deliveries overlap, and every delivery whose handler completed has
\* inserted its event under the id.
C17_NoExactlyOnce ==
    /\ \A k \in ReceivedIds :
          /\ Cardinality({i \in 1 .. Len(handlerCalls) :
                             handlerCalls[i].eventId = k})
                = Cardinality(DeliveriesOf(k))
          /\ \A r \in DeliveriesOf(k) : Len(CallsOf(r)) = 1
    /\ \A r \in Requests :
          (requests[r].pc \in {"awaitProcess", "done"}
             /\ requests[r].event # None /\ requests[r].error = None) =>
                /\ TheEvent(r).processed
                /\ MapHas(events, TheEvent(r).id)

\* Two deliveries of one event id are both suspended in the handler, which
\* has run twice for that id, before either has inserted.
C17_Witness ==
    \E r1, r2 \in Requests :
        /\ r1 # r2
        /\ requests[r1].pc = "awaitHandler" /\ requests[r2].pc = "awaitHandler"
        /\ requests[r1].error = None /\ requests[r2].error = None
        /\ TheEvent(r1).id = TheEvent(r2).id
        /\ ~MapHas(events, TheEvent(r1).id)
        /\ Cardinality({i \in 1 .. Len(handlerCalls) :
                           handlerCalls[i].eventId = TheEvent(r1).id}) = 2

\* Request r has completed successfully: its one response is the
\* acknowledgment.
CompletedSuccessfully(r) ==
    /\ requests[r].pc = "done"
    /\ Len(requests[r].responses) = 1
    /\ requests[r].responses[1].received

\* The entry a successful request r leaves when it runs alone: its own id,
\* the type and payload of its body, processed.
OwnEntry(r) ==
    LET body == requests[r].body
        dev  == environment = "development"
    IN  [key |-> TheEvent(r).id,
         value |-> [ref |-> r,
                    id |-> TheEvent(r).id,
                    type |-> IF dev /\ body.type \in {None, Some("")}
                             THEN Some("payment_intent.succeeded")
                             ELSE body.type,
                    data |-> IF dev /\ body.data = None
                             THEN Some([object |-> None]) ELSE body.data,
                    processed |-> TRUE]]

\* The store, as a mapping, after the requests of rs ran one after the
\* other in the order given, each to its end.
RECURSIVE Sequentially(_)
Sequentially(rs) ==
    IF rs = <<>> THEN {}
    ELSE LET last == OwnEntry(rs[Len(rs)])
         IN  {en \in Sequentially(SubSeq(rs, 1, Len(rs) - 1)) :
                  en.key # last.key} \cup {last}

\* C18: when two requests with different event ids have both completed
\* successfully, however their steps interleaved, the store holds under
\* each id the request's own event, with its type and payload and
\* processed=true, and the entries of the two ids are those that running
\* the two requests one after the other leaves, in either order.
C18_DifferentIdsDoNotInterfere ==
    \A r1, r2 \in Requests :
        (/\ r1 # r2
         /\ CompletedSuccessfully(r1) /\ CompletedSuccessfully(r2)
         /\ TheEvent(r1).id # TheEvent(r2).id
         /\ \A r \in Requests \ {r1, r2} : \A e \in requests[r].event :
               e.id \notin {TheEvent(r1).id, TheEvent(r2).id}) =>
            LET ids == {TheEvent(r1).id, TheEvent(r2).id}
                stored == {events[i] : i \in {j \in 1 .. Len(events) :
                                                 events[j].key \in ids}}
            IN  /\ MapGet(events, TheEvent(r1).id) = {OwnEntry(r1).value}
                /\ MapGet(events, TheEvent(r2).id) = {OwnEntry(r2).value}
                /\ stored = Sequentially(<<r1, r2>>)
                /\ stored = Sequentially(<<r2, r1>>)
                /\ Cardinality(stored) = 2

\* Two requests with different ids have completed successfully after their
\* steps interleaved: the handler of the first ran before that of the
\* second, and the second stored its event before the first.
C18_Witness ==
    \E r1, r2 \in Requests :
        /\ r1 # r2
        /\ CompletedSuccessfully(r1) /\ CompletedSuccessfully(r2)
        /\ TheEvent(r1).id # TheEvent(r2).id
        /\ Len(handlerCalls) = 2 /\ Len(events) = 2
        /\ handlerCalls[1].request = r1 /\ handlerCalls[2].request = r2
        /\ events[1].value.ref = r2 /\ events[2].value.ref = r1

\* C19: a response {received: true, eventId} is the only response of its
\* request and is sent after the handler (if the type has one) ran once
\* and completed and the event was marked and stored; eventId is the id of
\* the request's event and a key of the store, under which getEvent reads
\* back a processed event of that id: the request's own, unless another
\* delivery of the same id has been stored since.
C19_AcknowledgedAfterStored ==
    \A r \in Requests : \A n \in 1 .. Len(requests[r].responses) :
        LET response == requests[r].responses[n]
        IN  response.received =>
               /\ requests[r].pc = "done"
               /\ requests[r].responses = <<response>>
               /\ response.status = 200
               /\ requests[r].event # None
               /\ requests[r].error = None
               /\ response.eventId = TheEvent(r).id
               /\ TheEvent(r).processed
               /\ Len(CallsOf(r)) =
                     (IF \E t \in RecognizedTypes : TheEvent(r).type = Some(t)
                      THEN 1 ELSE 0)
               /\ MapHas(events, response.eventId)
               /\ \A e \in MapGet(events, response.eventId) :
                     /\ e.id = response.eventId
                     /\ e.processed
                     /\ (e = TheEvent(r)
                           \/ \E r2 \in Requests \ {r} : e = TheEvent(r2))

\* A request has been acknowledged after its handler ran, and getEvent has
\* read its event back under the eventId of the acknowledgment.
C19_Witness ==
    \E r \in Requests :
        /\ CompletedSuccessfully(r)
        /\ Len(CallsOf(r)) = 1
        /\ queryResult = [op |-> "getEvent", result |-> <<TheEvent(r)>>]
        /\ MapGet(events, requests[r].responses[1].eventId) = {TheEvent(r)}

\* C20: no step removes an entry of the store: every key present stays
\* present, at its place, the store never shrinks, and a step of getEvent,
\* getAllEvents or getEventsByType leaves the store as it was.
C20_EventsRetained ==
    [][/\ Len(events') >= Len(events)
       /\ \A i \in 1 .. Len(events) : events'[i].key = events[i].key
       /\ \A k \in {events[i].key : i \in 1 .. Len(events)} : MapHas(events', k)
       /\ queryResult' # queryResult => events' = events]_vars

\* The store holds the events of two deliveries and has been read by
\* getAllEvents since the second was stored.
C20_Witness ==
    /\ Len(events) = 2
    /\ events[1].key # events[2].key
    /\ queryResult = [op |-> "getAllEvents", result |-> MapValues(events)]

\* The texts an error handler uses for a failure it does not describe.
GenericMessages == {"Internal server error", "Internal Server Error"}

\* C21 as claimed: in production the response of either error handler
\* carries a generic message, not the text of the error, and no stack; in
\* the other environments it carries the message of the error.
C21_ProductionErrorsAreGeneric ==
    \A e \in errorResponse :
        IF environment = "production"
        THEN /\ e.response.stack = None
             /\ \E m \in GenericMessages : e.response.message = Some(m)
        ELSE e.error.message \notin {None, Some("")} =>
                e.response.message = e.error.message

\* Requests r1 and r2 differ in nothing but the values of their non-empty
\* signature headers.
SameButSignature(r1, r2) ==
    /\ r1 # r2
    /\ requests[r1].pc # "none" /\ requests[r2].pc # "none"
    /\ requests[r1].body = requests[r2].body
    /\ requests[r1].sig \notin {None, Some("")}
    /\ requests[r2].sig \notin {None, Some("")}
    /\ requests[r1].sig # requests[r2].sig

\* What a request has done, besides the identity of its event: the
\* responses, the failure, the event's type, payload and flag, the handlers
\* run, and whether the store holds an entry under the event's id.
EffectOf(r) ==
    [responses |-> [n \in 1 .. Len(requests[r].responses) |->
                      [status   |-> requests[r].responses[n].status,
                       text     |-> requests[r].responses[n].text,
                       received |-> requests[r].responses[n].received]],
     error   |-> requests[r].error,
     event   |-> {[type |-> e.type, data |-> e.data, processed |-> e.processed] :
                     e \in requests[r].event},
     calls   |-> [n \in 1 .. Len(CallsOf(r)) |-> CallsOf(r)[n].handler],
     stored  |-> {MapHas(events, e.id) : e \in requests[r].event}]

\* C22: two requests that differ only in the value of a non-empty signature
\* header and have come equally far have the same response kind and the
\* same effect: both built an event, of the same type and payload, the same
\* handler ran, and both events are stored as processed or neither is.
C22_SignatureValueIsIgnored ==
    \A r1, r2 \in Requests :
        (SameButSignature(r1, r2) /\ requests[r1].pc = requests[r2].pc) =>
            /\ EffectOf(r1) = EffectOf(r2)
            /\ requests[r1].event # None

\* In production, two deliveries that differ only in their signature values
\* have both been acknowledged.
C22_Witness ==
    \E r1, r2 \in Requests :
        /\ SameButSignature(r1, r2)
        /\ environment = "production"
        /\ CompletedSuccessfully(r1) /\ CompletedSuccessfully(r2)
        /\ Len(CallsOf(r1)) = 1 /\ Len(CallsOf(r2)) = 1
        /\ StoredProcessed(r1) /\ StoredProcessed(r2)

\* The headers that carry no bearer token, and whose token each of the
\* others' is: the user of a token the server signed, none for a token that
\* fails verification.
NoBearerToken(authorization) ==
    authorization \in {None, Some(""), Some("Bearer"), Some("Bearer ")}

TokenUser(authorization) ==
    CASE authorization = Some("Bearer jwt.admin") ->
            Some([id |-> "user-1", email |-> "admin@example.com", role |-> "admin"])
      [] authorization = Some("Bearer jwt.coach") ->
            Some([id |-> "user-2", email |-> "coach@example.com", role |-> "coach"])
      [] authorization = Some("Bearer jwt.student") ->
            Some([id |-> "user-3", email |-> "student@example.com", role |-> "student"])
      [] OTHER -> None

\* The responses sent and the calls of next() made by the step.
SentByStep == SubSeq(res', Len(res) + 1, Len(res'))
NextCallsByStep == SubSeq(nextCalls', Len(nextCalls) + 1, Len(nextCalls'))

\* C23: a run of authenticateToken ends in one of three ways. Without a
\* bearer token it sends one 401 and does not call next; with a token that
\* fails verification it sends one 403 and does not call next; with a valid
\* token it sets req.user to the token's id, email and role, calls next
\* once and sends nothing. In the first two the request is left as it was.
C23_AuthenticateTokenOutcomes ==
    [][(layer = 1 /\ req.route # "" /\ CurrentLayer.name = "authenticateToken") =>
          IF NoBearerToken(req.authorization)
          THEN /\ Len(SentByStep) = 1 /\ SentByStep[1].status = 401
               /\ NextCallsByStep = <<>>
               /\ req' = req
          ELSE IF TokenUser(req.authorization) = None
          THEN /\ Len(SentByStep) = 1 /\ SentByStep[1].status = 403
               /\ NextCallsByStep = <<>>
               /\ req' = req
          ELSE /\ SentByStep = <<>>
               /\ NextCallsByStep = <<"authenticateToken">>
               /\ req' = [req EXCEPT !.user = TokenUser(req.authorization)]]_vars

\* authenticateToken has let a coach's token through: req.user is the
\* coach, next was called once and nothing was sent.
C23_Witness ==
    /\ req.authorization = Some("Bearer jwt.coach")
    /\ req.user = Some([id |-> "user-2", email |-> "coach@example.com",
                        role |-> "coach"])
    /\ nextCalls = <<"authenticateToken">>
    /\ res = <<>>

\* The routes registered with authenticateToken followed by requireRole,
\* and the roles each requires.
RoleProtected == {"DELETE /donations/:id", "GET /campaigns/stats/overview"}

RequiredRoles(route) ==
    CASE route = "DELETE /donations/:id" -> {"admin"}
      [] route = "GET /campaigns/stats/overview" -> {"coach", "admin"}

\* The request bears a valid token whose role the route requires.
Authorized ==
    \E u \in TokenUser(req.authorization) : u.role \in RequiredRoles(req.route)

\* The handler of the route has been reached or has answered.
HandlerReached ==
    \/ layer > 0 /\ CurrentLayer.name \in {"deleteDonation", "getCampaignStats"}
    \/ \E n \in 1 .. Len(res) : res[n].by = "handler"

\* C24: on a route behind authenticateToken and requireRole(R) the handler
\* is reached only by a request bearing a valid token with a role in R; a
\* request that is not is answered once, with 401 when it has no token and
\* with 403 when its token is invalid or its role is outside R.
C24_RoleProtectedRoutes ==
    req.route \in RoleProtected =>
        /\ HandlerReached => Authorized
        /\ (layer = 0 /\ ~Authorized) =>
              /\ Len(res) = 1
              /\ res[1].by \in {"authenticateToken", "requireRole"}
              /\ res[1].status = IF NoBearerToken(req.authorization) THEN 401 ELSE 403
        /\ (layer = 0 /\ Authorized) =>
              /\ Len(res) = 1 /\ res[1].by = "handler" /\ res[1].status = 200

\* A coach's valid token on the admin-only route: requireRole answered 403
\* after authenticateToken let it through, and the handler never ran.
C24_Witness ==
    /\ req.route = "DELETE /donations/:id"
    /\ req.authorization = Some("Bearer jwt.coach")
    /\ layer = 0
    /\ nextCalls = <<"authenticateToken">>
    /\ Len(res) = 1 /\ res[1].status = 403 /\ res[1].by = "requireRole"

\* The field of the request a validator reads and replaces.
FieldOf(name, request) ==
    CASE name = "validateBody" -> request.body
      [] name = "validateQuery" -> request.query
      [] name = "validateParams" -> request.params

WithField(name, request, value) ==
    CASE name = "validateBody" -> [request EXCEPT !.body = value]
      [] name = "validateQuery" -> [request EXCEPT !.query = value]
      [] name = "validateParams" -> [request EXCEPT !.params = value]

\* C25: a run of validateBody, validateQuery or validateParams either
\* rejects or passes. When the field fails the schema it sends one 400,
\* does not call next and leaves the request as it was; when the field
\* passes, it replaces that field, and nothing else of the request, by the
\* parsed value, calls next once and sends nothing.
C25_ValidatorsPassOrReject ==
    [][\A name \in {"validateBody", "validateQuery", "validateParams"} :
          (layer > 0 /\ req.route # "" /\ CurrentLayer.name = name) =>
             LET result == parse(CurrentLayer.schema, FieldOf(name, req))
             IN  IF result.value = None
                 THEN /\ Len(SentByStep) = 1
                      /\ SentByStep[1].status = 400
                      /\ SentByStep[1].by = name
                      /\ NextCallsByStep = <<>>
                      /\ req' = req
                      /\ layer' = 0
                 ELSE /\ SentByStep = <<>>
                      /\ NextCallsByStep = <<name>>
                      /\ req' = WithField(name, req, result.value)
                      /\ layer' = layer + 1]_vars

\* validateQuery has passed a listing request without page and limit: the
\* query now holds the parsed numbers 1 and 10, next was called once and
\* nothing was sent.
C25_Witness ==
    /\ req.route = "GET /campaigns"
    /\ req.query = Some(Query(Some(Number(1)), Some(Number(10)), None))
    /\ nextCalls = <<"validateQuery">>
    /\ res = <<>>
    /\ layer = 2

\* C26: in every reachable state each entry of the event store is a
\* processed event filed under its own id, and no id has two entries.
C26_StoreHoldsProcessedEvents ==
    /\ \A i \in 1 .. Len(events) :
          events[i].value.processed /\ events[i].key = events[i].value.id
    /\ \A i, j \in 1 .. Len(events) : events[i].key = events[j].key => i = j

\* The store holds an event of an unrecognized type, stored without a
\* handler, and one stored after its handler returned, while the event of
\* no request is left unprocessed in it.
C26_Witness ==
    /\ Len(events) = 2
    /\ \E i, j \in 1 .. 2 :
          /\ events[i].value.type = Some("foo.bar")
          /\ events[j].value.type \in {Some(t) : t \in RecognizedTypes}
          /\ Len(CallsOf(events[i].value.ref)) = 0
          /\ Len(CallsOf(events[j].value.ref)) = 1

\* Request r has been answered: by the one 400 or by the one
\* acknowledgment.
AnsweredOnce(r) ==
    /\ requests[r].pc = "done"
    /\ Len(requests[r].responses) = 1
    /\ LET response == requests[r].responses[1]
       IN  \/ response.status = 400 /\ ~response.received
           \/ response.status = 200 /\ response.received

\* C27: a webhook request never has two responses, has none while it is in
\* progress, and, its handler terminating, is eventually answered once, by
\* the 400 or by the acknowledgment, on every path of handleStripeWebhook.
C27_AnsweredExactlyOnce ==
    /\ [](\A r \in Requests :
            /\ Len(requests[r].responses) <= 1
            /\ requests[r].pc \in {"awaitHandler", "awaitProcess"} =>
                  requests[r].responses = <<>>
            /\ requests[r].pc = "done" => AnsweredOnce(r))
    /\ \A r \in Requests : (requests[r].pc # "none") ~> AnsweredOnce(r)

\* One request was answered with the 400 of a missing signature, another
\* with the 400 of a handler exception or with the acknowledgment, each
\* once.
C27_Witness ==
    \E r1, r2 \in Requests :
        /\ AnsweredOnce(r1) /\ AnsweredOnce(r2)
        /\ requests[r1].responses = <<MissingSignature>>
        /\ requests[r2].event # None
        /\ requests[r2].error # None
        /\ requests[r2].responses[1].status = 400

\* Request r is signed, its payload carries no data.object, and the type
\* of its event is a recognized one: named by the body, or in development
\* the payment-succeeded type a body without a type defaults to.
RecognizedWithoutObject(r) ==
    /\ Signed(r)
    /\ \A d \in requests[r].body.data : d.object = None
    /\ \/ RecognizedBody(r)
       \/ environment = "development" /\ requests[r].body.type \in {None, Some("")}

\* C28: the handler of a signed webhook of a recognized type without
\* data.object is invoked once and fails; the event is never marked
\* processed nor recorded, and the request is answered with the one 400
\* that carries the failure's message.
C28_MissingObjectFailsHandler ==
    \A r \in Requests :
        RecognizedWithoutObject(r) =>
            /\ Len(CallsOf(r)) = 1
            /\ requests[r].error # None
            /\ ~TheEvent(r).processed
            /\ \A i \in 1 .. Len(events) : events[i].value.ref # r
            /\ requests[r].pc = "done" =>
                  /\ Len(requests[r].responses) = 1
                  /\ requests[r].responses[1].status = 400
                  /\ ~requests[r].responses[1].received
                  /\ \E m \in requests[r].error :
                        requests[r].responses[1].text = "Webhook Error: " \o m

\* In development a signed request with neither type nor data was given
\* the payment-succeeded type, its handler failed, it was answered 400 and
\* the store is empty.
C28_Witness ==
    \E r \in Requests :
        /\ environment = "development"
        /\ Signed(r)
        /\ requests[r].body.type = None /\ requests[r].body.data = None
        /\ TheEvent(r).type = Some("payment_intent.succeeded")
        /\ CallsOf(r)[1].handler = "handlePaymentSucceeded"
        /\ requests[r].pc = "done"
        /\ requests[r].responses[1].status = 400
        /\ events = <<>>

\* C29 as claimed: once validateQuery has accepted the query of the
\* campaign listing, the effective page is an integer of 1 or more and the
\* effective limit an integer in 1..100; the page returned holds at most
\* limit campaigns and pagination.pages is ceil(total / limit), a
\* non-negative integer.
C29_PaginationInBounds ==
    (req.route = "GET /campaigns" /\ nextCalls = <<"validateQuery">>) =>
        \A q \in req.query : \A page \in q.page : \A limit \in q.limit :
            /\ page.t = "number" /\ page.n >= 1
            /\ limit.t = "number" /\ limit.n \in 1 .. 100
            /\ \A n \in 1 .. Len(res) : \A p \in res[n].pagination :
                  /\ Len(res[n].data) <= limit.n
                  /\ p.page = page.n /\ p.limit = limit.n
                  /\ p.pages >= 0
                  /\ p.pages * limit.n >= p.total
                  /\ (p.pages - 1) * limit.n < p.total

====
